---- MODULE Spec2Model ----
(***************************************************************************)
(* Model of the cloud backend of self_update (src/src/backends/cloud.rs):  *)
(* the UpdateBuilder and its build(), the release queries                  *)
(* (ReleaseList::fetch, Update::get_release_version), the mapping          *)
(* from_cloud, the service hooks before_update / after_update, and the     *)
(* update orchestration that brackets the external apply step with them.   *)
(*                                                                         *)
(* Strings whose content is only compared are TLA+ strings.  Strings that  *)
(* are taken apart or put together (binary names, URLs) are sequences of   *)
(* string pieces, concatenated with \o.  Option<T> is a sequence of length *)
(* at most one: None == <<>>, Some(v) == <<v>>.  A call returns a record   *)
(* with kind "Ok" (value), "Err" (error, msg) or "Panic" (at): a panic is  *)
(* the abnormal termination of unwrap()/expect() on None/Err.              *)
(***************************************************************************)
EXTENDS Integers, Sequences, FiniteSets, TLC

VARIABLES
    windows,        \* cfg!(target_os = "windows") of the build
    exe_ok,         \* whether env::current_exe() succeeds in this process
    builder,        \* the UpdateBuilder
    ret,            \* what the last builder call returned
    plan,           \* Option<Update>: the Update that build() produced
    pc,             \* position of the update run
    resolved,       \* result of release resolution
    apply_result,   \* Option of what the apply primitive returned
    before_calls,   \* invocations of before_update
    apply_calls,    \* invocations of the apply primitive
    after_calls,    \* invocations of after_update
    trace,          \* events of the run, in order
    outcome,        \* how the run ended
    q_self,         \* receiver of the query under test
    q_exch,         \* the HTTP exchange the query sees
    q_out,          \* what the query returned
    calls           \* the last argument of the setters build() depends on:
                    \* Option<bool> of ignore_ver_compare, Option of
                    \* bin_path_in_archive

vars == <<windows, exe_ok, builder, ret, plan, pc, resolved, apply_result,
          before_calls, apply_calls, after_calls, trace, outcome,
          q_self, q_exch, q_out, calls>>

runVars == <<pc, resolved, apply_result, before_calls, apply_calls,
             after_calls, trace, outcome>>

queryVars == <<q_self, q_exch, q_out>>

----------------------------------------------------------------------------
(* Option and call results *)

None == <<>>

Some(v) == <<v>>

IsSome(o) == Len(o) = 1

Unwrap(o) == o[1]

Ok(v) == [kind |-> "Ok", value |-> v]

Err(e, m) == [kind |-> "Err", error |-> e, msg |-> m]

Panic(at) == [kind |-> "Panic", at |-> at]

IsOk(r) == r.kind = "Ok"

IsErr(r) == r.kind = "Err"

IsPanic(r) == r.kind = "Panic"

IsErrOf(r, e) == r.kind = "Err" /\ r.error = e

----------------------------------------------------------------------------
(* Platform *)

\* std::env::consts::EXE_SUFFIX
EXE_SUFFIX(win) == IF win THEN <<".exe">> ELSE <<>>

\* get_target(): the target triple the crate was built for
get_target(win) == IF win THEN <<"x86_64-pc-windows-msvc">>
                          ELSE <<"x86_64-unknown-linux-gnu">>

\* env::current_exe()
current_exe(ok) == IF ok THEN Ok([os |-> <<"/opt/updater/update">>])
                         ELSE Err("Io", "current_exe")

\* PathBuf::from(s)
PathBuf_from(s) == [os |-> s]

\* s.ends_with(suf), on sequences of pieces
EndsWith(s, suf) ==
    /\ Len(suf) <= Len(s)
    /\ SubSeq(s, Len(s) - Len(suf) + 1, Len(s)) = suf

\* str::trim_end_matches(pat): removes every trailing repetition of pat;
\* an empty pattern removes nothing
RECURSIVE trim_end_matches(_, _)
trim_end_matches(s, pat) ==
    IF pat # <<>> /\ EndsWith(s, pat)
    THEN trim_end_matches(SubSeq(s, 1, Len(s) - Len(pat)), pat)
    ELSE s

----------------------------------------------------------------------------
(* UpdateBuilder *)

\* impl Default for UpdateBuilder
UpdateBuilder_default_gated ==
    [name                   |-> None,
     target                 |-> None,
     bin_name               |-> None,
     bin_install_path       |-> None,
     bin_path_in_archive    |-> None,
     show_download_progress |-> FALSE,
     show_output            |-> TRUE,
     ignore_ver_compare     |-> FALSE,
     no_confirm             |-> FALSE,
     current_version        |-> None,
     target_version         |-> None,
     auth_token             |-> None,
     custom_url             |-> None]

\* impl Default for UpdateBuilder
UpdateBuilder_default ==
    [name                   |-> None,
     target                 |-> None,
     bin_name               |-> None,
     bin_install_path       |-> None,
     bin_path_in_archive    |-> None,
     show_download_progress |-> FALSE,
     show_output            |-> TRUE,
     ignore_ver_compare     |-> TRUE,
     no_confirm             |-> FALSE,
     current_version        |-> None,
     target_version         |-> None,
     auth_token             |-> None,
     custom_url             |-> None]

UpdateBuilder_name(b, n) == [b EXCEPT !.name = Some(n)]

UpdateBuilder_custom_url(b, url) == [b EXCEPT !.custom_url = Some(url)]

UpdateBuilder_ignore_ver_compare(b, v) == [b EXCEPT !.ignore_ver_compare = v]

UpdateBuilder_current_version(b, ver) == [b EXCEPT !.current_version = Some(ver)]

UpdateBuilder_target_version_tag(b, ver) == [b EXCEPT !.target_version = Some(ver)]

UpdateBuilder_target(b, t) == [b EXCEPT !.target = Some(t)]

UpdateBuilder_bin_name_append(b, n, win) ==
    LET raw_bin_name == n \o EXE_SUFFIX(win)
    IN  [b EXCEPT !.bin_name = Some(raw_bin_name),
                  !.bin_path_in_archive =
                      IF b.bin_path_in_archive = None
                      THEN Some(PathBuf_from(raw_bin_name))
                      ELSE @]

UpdateBuilder_bin_name(b, n, win) ==
    LET raw_bin_name == trim_end_matches(n, EXE_SUFFIX(win)) \o EXE_SUFFIX(win)
    IN  [b EXCEPT !.bin_name = Some(raw_bin_name),
                  !.bin_path_in_archive =
                      IF b.bin_path_in_archive = None
                      THEN Some(PathBuf_from(raw_bin_name))
                      ELSE @]

UpdateBuilder_bin_install_path(b, p) ==
    [b EXCEPT !.bin_install_path = Some(PathBuf_from(p))]

UpdateBuilder_bin_path_in_archive(b, p) ==
    [b EXCEPT !.bin_path_in_archive = Some(PathBuf_from(p))]

UpdateBuilder_show_download_progress(b, v) ==
    [b EXCEPT !.show_download_progress = v]

UpdateBuilder_show_output(b, v) == [b EXCEPT !.show_output = v]

UpdateBuilder_no_confirm(b, v) == [b EXCEPT !.no_confirm = v]

UpdateBuilder_auth_token(b, t) == [b EXCEPT !.auth_token = Some(t)]

\* build(): the bail!(Error::Config, ..) taken when self.name is None
MissingName == Err("Config", "bin_name required")

PlanTarget_no_default(b, win) ==
    IF IsSome(b.target) THEN Unwrap(b.target) ELSE <<>>

\* build(): target, or get_target()
PlanTarget(b, win) ==
    IF IsSome(b.target) THEN Unwrap(b.target) ELSE get_target(win)

\* build(): bin_install_path, or env::current_exe()?
InstallPath(b, ok) ==
    IF IsSome(b.bin_install_path)
    THEN Ok(Unwrap(b.bin_install_path))
    ELSE current_exe(ok)

\* UpdateBuilder::build (the messages are the source's, without their backquotes)
UpdateBuilder_build(b, win, ok) ==
    LET ip == InstallPath(b, ok)
    IN  IF ~IsOk(ip) THEN ip
        ELSE IF b.name = None THEN MissingName
        ELSE IF b.bin_name = None THEN Err("Config", "bin_name required")
        ELSE IF b.bin_path_in_archive = None
             THEN Err("Config", "bin_path_in_archive required")
        ELSE IF b.current_version = None
             THEN Err("Config", "current_version required")
        ELSE Ok([name                   |-> Unwrap(b.name),
                 target                 |-> PlanTarget(b, win),
                 bin_name               |-> Unwrap(b.bin_name),
                 bin_install_path       |-> ip.value,
                 bin_path_in_archive    |-> Unwrap(b.bin_path_in_archive),
                 current_version        |-> Unwrap(b.current_version),
                 target_version         |-> b.target_version,
                 show_download_progress |-> b.show_download_progress,
                 show_output            |-> b.show_output,
                 no_confirm             |-> b.no_confirm,
                 ignore_ver_compare     |-> b.ignore_ver_compare,
                 auth_token             |-> b.auth_token,
                 custom_url             |-> b.custom_url])

----------------------------------------------------------------------------
(* ReleaseListBuilder *)

\* ReleaseList::configure
ReleaseList_configure ==
    [name |-> None, target |-> None, auth_token |-> None, custom_url |-> None]

ReleaseListBuilder_with_name(b, n) == [b EXCEPT !.name = Some(n)]

ReleaseListBuilder_custom_url(b, url) == [b EXCEPT !.custom_url = Some(url)]

ReleaseListBuilder_with_target(b, t) == [b EXCEPT !.target = Some(t)]

ReleaseListBuilder_with_url(b, url) == [b EXCEPT !.custom_url = Some(url)]

ReleaseListBuilder_auth_token(b, t) == [b EXCEPT !.auth_token = Some(t)]

\* ReleaseListBuilder::build
ReleaseListBuilder_build(b) ==
    Ok([name       |-> b.name,
        target     |-> b.target,
        auth_token |-> b.auth_token,
        custom_url |-> b.custom_url])

----------------------------------------------------------------------------
(* The release API as the queries see it *)

\* Largest number of records in the content of a list response
MaxRecords == 2

SoftNames == {<<"agent">>, <<"agent", "-x86_64-unknown-linux-gnu">>}

SoftVersions == {"2.0.0"}

\* A release record as the API sends it (JSON object, camelCase keys)
SoftJsons ==
    [id         : {1},
     binaryId   : {42},
     name       : {None} \cup {Some(n) : n \in SoftNames},
     hash       : {None},
     version    : {None} \cup {Some(v) : v \in SoftVersions},
     createTime : {None, Some("2024-01-01")}]

RECURSIVE SeqsUpTo(_, _)
SeqsUpTo(S, n) ==
    IF n = 0 THEN {<<>>}
    ELSE LET shorter == SeqsUpTo(S, n - 1)
         IN  shorter \cup {Append(q, x) : q \in {r \in shorter : Len(r) = n - 1}, x \in S}

\* What the "content" key of a response body can hold
Contents ==
    {[t |-> "Absent"], [t |-> "Null"], [t |-> "Malformed"]}
    \cup {[t |-> "Object", rec |-> s] : s \in SoftJsons}
    \cup {[t |-> "Array", recs |-> l] : l \in SeqsUpTo(SoftJsons, MaxRecords)}

\* Response bodies: not an envelope at all, or an envelope
Bodies ==
    {[t |-> "Garbage"]}
    \cup {[t |-> "Envelope", isSuccess |-> ok, content |-> c] :
             ok \in BOOLEAN, c \in Contents}

\* What happens to one GET: the transport fails, or a response arrives
Exchanges ==
    {[t |-> "SendErr"]}
    \cup {[t |-> "Resp", status |-> 404, body |-> [t |-> "Garbage"]]}
    \cup {[t |-> "Resp", status |-> st, body |-> b] : st \in {200, 500}, b \in Bodies}

\* StatusCode::is_success
is_success(status) == status >= 200 /\ status <= 299

\* #[derive(Deserialize)] #[serde(rename_all = "camelCase")] struct Soft
Soft_deserialize(j) ==
    [id          |-> j.id,
     binary_id   |-> j.binaryId,
     name        |-> j.name,
     hash        |-> j.hash,
     version     |-> j.version,
     create_time |-> j.createTime]

\* resp.json::<NetResponse<Vec<Soft>>>(): content must be an array of records
json_list(body) ==
    IF body.t = "Envelope" /\ body.content.t = "Array"
    THEN Ok([is_success |-> body.isSuccess,
             content    |-> [i \in 1..Len(body.content.recs) |->
                                Soft_deserialize(body.content.recs[i])]])
    ELSE Err("Reqwest", "decode")

\* resp.json::<NetResponse<Soft>>(): content must be one record
json_one(body) ==
    IF body.t = "Envelope" /\ body.content.t = "Object"
    THEN Ok([is_success |-> body.isSuccess,
             content    |-> Soft_deserialize(body.content.rec)])
    ELSE Err("Reqwest", "decode")

----------------------------------------------------------------------------
(* Mapping and queries *)

from_cloud_record_id(soft, root_url) ==
    IF soft.name = None THEN Panic("from_cloud: name.unwrap()")
    ELSE IF soft.version = None THEN Panic("from_cloud: version.unwrap()")
    ELSE Ok([name    |-> Unwrap(soft.name),
             version |-> Unwrap(soft.version),
             date    |-> IF IsSome(soft.create_time)
                         THEN Unwrap(soft.create_time) ELSE "",
             body    |-> None,
             assets  |-> << [name         |-> Unwrap(soft.name),
                             download_url |-> root_url
                                 \o <<"/api/binaryfile/download?id=">>
                                 \o <<ToString(soft.id)>>] >>])

\* from_cloud: unwrap() of a missing name or version panics
from_cloud(soft, root_url) ==
    IF soft.name = None THEN Panic("from_cloud: name.unwrap()")
    ELSE IF soft.version = None THEN Panic("from_cloud: version.unwrap()")
    ELSE Ok([name    |-> Unwrap(soft.name),
             version |-> Unwrap(soft.version),
             date    |-> IF IsSome(soft.create_time)
                         THEN Unwrap(soft.create_time) ELSE "",
             body    |-> None,
             assets  |-> << [name         |-> Unwrap(soft.name),
                             download_url |-> root_url
                                 \o <<"/api/binaryfile/download?id=">>
                                 \o <<ToString(soft.binary_id)>>] >>])

\* Header values are sequences of bytes. The bytes a header value cannot
\* contain: the control bytes other than TAB (9), and DEL
InvalidHeaderBytes == ((0..31) \ {9}) \cup {127}

\* HeaderValue::from_str succeeds: every byte is valid
HeaderValueOk(s) == \A i \in 1..Len(s) : s[i] \notin InvalidHeaderBytes

\* The bytes of "Bearer "
Bearer == <<66, 101, 97, 114, 101, 114, 32>>

api_headers_unchecked(auth_token) ==
    Ok([user_agent    |-> "rust-reqwest/self-update",
        authorization |-> IF IsSome(auth_token)
                          THEN Some(Bearer \o Unwrap(auth_token))
                          ELSE None])

api_headers_no_authorization(auth_token) ==
    IF IsSome(auth_token) /\ ~HeaderValueOk(Bearer \o Unwrap(auth_token))
    THEN Err("Config", "Failed to parse auth token: failed to parse header value")
    ELSE Ok([user_agent    |-> "rust-reqwest/self-update",
             authorization |-> None])

\* api_headers
api_headers(auth_token) ==
    IF IsSome(auth_token) /\ ~HeaderValueOk(Bearer \o Unwrap(auth_token))
    THEN Err("Config", "Failed to parse auth token: failed to parse header value")
    ELSE Ok([user_agent    |-> "rust-reqwest/self-update",
             authorization |-> IF IsSome(auth_token)
                               THEN Some(Bearer \o Unwrap(auth_token))
                               ELSE None])

\* .iter().map(|s| from_cloud(s, self.custom_url.as_ref().unwrap())).collect():
\* the records are mapped in order; the first panic ends the call
RECURSIVE MapFromCloud(_, _, _)
MapFromCloud(content, custom_url, acc) ==
    IF content = <<>> THEN Ok(acc)
    ELSE IF custom_url = None THEN Panic("fetch_releases: custom_url.unwrap()")
    ELSE LET r == from_cloud(Head(content), Unwrap(custom_url))
         IN  IF IsOk(r)
             THEN MapFromCloud(Tail(content), custom_url, Append(acc, r.value))
             ELSE r

\* Client::new().get(url).headers(api_headers(&self.auth_token)?).send():
\* the request that goes out, if the headers could be built
SentRequest(auth_token, url) ==
    LET h == api_headers(auth_token)
    IN  IF IsOk(h) THEN Some([method |-> "GET", url |-> url, headers |-> h.value])
        ELSE None

ReleaseList_fetch_releases_any_status(self, url, x) ==
    LET h == api_headers(self.auth_token)
    IN  IF ~IsOk(h) THEN h
        ELSE IF x.t = "SendErr" THEN Err("Reqwest", "send")
        ELSE LET json == json_list(x.body)
             IN  IF ~IsOk(json) THEN json
                 ELSE IF json.value.is_success /\ Len(json.value.content) > 0
                      THEN MapFromCloud(json.value.content, self.custom_url, <<>>)
                      ELSE Err("Release", "Not found Release")

ReleaseList_fetch_releases_allow_empty(self, url, x) ==
    LET h == api_headers(self.auth_token)
    IN  IF ~IsOk(h) THEN h
        ELSE IF x.t = "SendErr" THEN Err("Reqwest", "send")
        ELSE IF ~is_success(x.status)
             THEN Err("Network", [status |-> x.status, url |-> url])
        ELSE LET json == json_list(x.body)
             IN  IF ~IsOk(json) THEN json
                 ELSE IF json.value.is_success
                      THEN MapFromCloud(json.value.content, self.custom_url, <<>>)
                      ELSE Err("Release", "Not found Release")

ReleaseList_fetch_releases_nonempty(self, url, x) ==
    LET h == api_headers(self.auth_token)
    IN  IF ~IsOk(h) THEN h
        ELSE IF x.t = "SendErr" THEN Err("Reqwest", "send")
        ELSE IF ~is_success(x.status)
             THEN Err("Network", [status |-> x.status, url |-> url])
        ELSE LET json == json_list(x.body)
             IN  IF ~IsOk(json) THEN json
                 ELSE IF Len(json.value.content) > 0
                      THEN MapFromCloud(json.value.content, self.custom_url, <<>>)
                      ELSE Err("Release", "Not found Release")

\* ReleaseList::fetch_releases
ReleaseList_fetch_releases(self, url, x) ==
    LET h == api_headers(self.auth_token)
    IN  IF ~IsOk(h) THEN h
        ELSE IF x.t = "SendErr" THEN Err("Reqwest", "send")
        ELSE IF ~is_success(x.status)
             THEN Err("Network", [status |-> x.status, url |-> url])
        ELSE LET json == json_list(x.body)
             IN  IF ~IsOk(json) THEN json
                 ELSE IF json.value.is_success /\ Len(json.value.content) > 0
                      THEN MapFromCloud(json.value.content, self.custom_url, <<>>)
                      ELSE Err("Release", "Not found Release")

\* s.contains(pat), on sequences of pieces
Contains(s, pat) ==
    \E i \in 1..(Len(s) + 1) :
        /\ i + Len(pat) - 1 <= Len(s)
        /\ SubSeq(s, i, i + Len(pat) - 1) = pat

\* Release::has_target_asset
has_target_asset(r, target) ==
    \E i \in 1..Len(r.assets) : Contains(r.assets[i].name, target)

\* .filter(p).collect()
RECURSIVE FilterByTarget(_, _)
FilterByTarget(rs, target) ==
    IF rs = <<>> THEN <<>>
    ELSE IF has_target_asset(Head(rs), target)
         THEN <<Head(rs)>> \o FilterByTarget(Tail(rs), target)
         ELSE FilterByTarget(Tail(rs), target)

\* format!("{}/api/soft/getlist?type=2", custom_url or "http:127.0.0.1")
ReleaseList_api_url(self) ==
    (IF IsSome(self.custom_url) THEN Unwrap(self.custom_url)
     ELSE <<"http:127.0.0.1">>) \o <<"/api/soft/getlist?type=2">>

ReleaseList_fetch_empty_is_error(self, x) ==
    LET releases == ReleaseList_fetch_releases(self, ReleaseList_api_url(self), x)
    IN  IF ~IsOk(releases) THEN releases
        ELSE IF self.target = None THEN releases
        ELSE IF FilterByTarget(releases.value, Unwrap(self.target)) = <<>>
             THEN Err("Release", "Not found Release")
             ELSE Ok(FilterByTarget(releases.value, Unwrap(self.target)))

\* ReleaseList::fetch
ReleaseList_fetch(self, x) ==
    LET releases == ReleaseList_fetch_releases(self, ReleaseList_api_url(self), x)
    IN  IF ~IsOk(releases) THEN releases
        ELSE IF self.target = None THEN releases
        ELSE Ok(FilterByTarget(releases.value, Unwrap(self.target)))

\* format!("{}/api/soft/getver?type=2&ver={}", custom_url or
\* "http://127.0.0.1:5000", ver)
Update_api_url(self, ver) ==
    (IF IsSome(self.custom_url) THEN Unwrap(self.custom_url)
     ELSE <<"http://127.0.0.1:5000">>)
    \o <<"/api/soft/getver?type=2&ver=">> \o <<ver>>

\* Update::get_release_version
Update_get_release_version(self, ver, x) ==
    LET api_url == Update_api_url(self, ver)
        h == api_headers(self.auth_token)
    IN  IF ~IsOk(h) THEN h
        ELSE IF x.t = "SendErr" THEN Err("Reqwest", "send")
        ELSE IF ~is_success(x.status)
             THEN Err("Network", [status |-> x.status, url |-> api_url])
        ELSE LET json == json_one(x.body)
             IN  IF ~IsOk(json) THEN json
                 ELSE IF json.value.is_success
                      THEN IF self.custom_url = None
                           THEN Panic("get_release_version: custom_url.unwrap()")
                           ELSE from_cloud(json.value.content, Unwrap(self.custom_url))
                      ELSE Err("Release", "can not get Last relesae")

\* Update::get_latest_release
Update_get_latest_release(self, x) == Update_get_release_version(self, "", x)

----------------------------------------------------------------------------
(* Update: accessors and hooks *)

Update_current_version(self) == self.current_version

Update_target(self) == self.target

Update_target_version(self) == self.target_version

Update_ignore_ver_compare_always(self) == TRUE

Update_ignore_ver_compare(self) == self.ignore_ver_compare

\* What the operating system does with a hook command: it cannot be
\* started, or it runs to an exit status and an output that is UTF-8 or not
HookRuns ==
    {[spawn |-> FALSE, status |-> 0, utf8 |-> TRUE]}
    \cup [spawn : {TRUE}, status : {0, 1}, utf8 : BOOLEAN]

\* Command::new(..).output().expect(..), String::from_utf8(..).unwrap(), info!
RunHook(cmd, h) ==
    IF ~h.spawn THEN Panic("failed to execute process")
    ELSE IF ~h.utf8 THEN Panic("String::from_utf8(stdout).unwrap()")
    ELSE Ok([cmd |-> cmd, status |-> h.status])

\* Update::before_update
Update_before_update(self, win, h) ==
    RunHook(IF win THEN <<"cmd", "/C", "sc stop CloudAgent">>
                   ELSE <<"sh", "-c", "sv stop CloudAgent">>, h)

\* Update::after_update
Update_after_update(self, win, h) ==
    RunHook(IF win THEN <<"cmd", "/C", "sc start CloudAgent">>
                   ELSE <<"sh", "-c", "sv stop CloudAgent">>, h)

----------------------------------------------------------------------------
(* The update run: Start -> ResolveRelease -> GateOnVersion ->              *)
(* (skip | before_update, Apply, after_update) -> Report                    *)

\* fetch_all for a plan: the list query with the plan's settings
PlanReleaseList(u) ==
    [name       |-> Some(u.name),
     target     |-> Some(Update_target(u)),
     auth_token |-> u.auth_token,
     custom_url |-> u.custom_url]

\* ResolveRelease: the tagged release, or the first listed release that
\* has an asset for the plan's target
Resolve(u, x) ==
    IF IsSome(Update_target_version(u))
    THEN Update_get_release_version(u, Unwrap(Update_target_version(u)), x)
    ELSE LET l == ReleaseList_fetch(PlanReleaseList(u), x)
         IN  IF ~IsOk(l) THEN l
             ELSE IF l.value = <<>> THEN Err("Release", "no release for target")
             ELSE Ok(Head(l.value))

\* GateOnVersion: the run stops as up to date
UpToDate(u, release) ==
    /\ ~Update_ignore_ver_compare(u)
    /\ release.version = Update_current_version(u)

\* Where the run goes once resolution has returned: a failure ends it
AfterResolve(r) == IF IsOk(r) THEN "gate" ELSE "done"

\* Where the run goes once Apply has returned: to the post-update hook,
\* whatever Apply returned
AfterApply_short_circuit(result) == IF IsOk(result) THEN "after" ELSE "report"

AfterApply(result) == "after"

\* Report
Status(version, updated) == Ok([version |-> version, updated |-> updated])

NoResult == [kind |-> "None"]

\* The builders an update run starts from: a chain of UpdateBuilder
\* setters as a caller of the library writes it, each optional setter
\* called or not
RunBuilderOf(nm, url, iv, ver, tag, tok, path) ==
    LET b1 == IF IsSome(nm) THEN UpdateBuilder_name(UpdateBuilder_default, Unwrap(nm))
              ELSE UpdateBuilder_default
        b2 == IF IsSome(url) THEN UpdateBuilder_custom_url(b1, Unwrap(url)) ELSE b1
        b3 == UpdateBuilder_no_confirm(b2, TRUE)
        b4 == IF IsSome(iv) THEN UpdateBuilder_ignore_ver_compare(b3, Unwrap(iv)) ELSE b3
        b5 == UpdateBuilder_show_download_progress(b4, TRUE)
        b6 == IF IsSome(path) THEN UpdateBuilder_bin_install_path(b5, Unwrap(path)) ELSE b5
        b7 == IF IsSome(tag) THEN UpdateBuilder_target_version_tag(b6, Unwrap(tag)) ELSE b6
        b8 == IF IsSome(tok) THEN UpdateBuilder_auth_token(b7, Unwrap(tok)) ELSE b7
    IN  UpdateBuilder_current_version(b8, ver)

Versions == {"1.0.0", "2.0.0"}

Roots == {<<"http://h">>}

\* The bytes of "secret"
Secret == <<115, 101, 99, 114, 101, 116>>

\* Auth tokens, as bytes: "secret", "sec\nret" (line feed), "a\fb" (form
\* feed) and "a\tb" (TAB, which a header value may hold)
Tokens == {Secret,
           <<115, 101, 99, 10, 114, 101, 116>>,
           <<97, 12, 98>>,
           <<97, 9, 98>>}

InstallDirs == {<<"/srv/CloudAgent">>}

\* The chains with a given ignore_ver_compare call (None: not called)
RunBuildersWith(iv) ==
    {RunBuilderOf(nm, url, iv, ver, tag, tok, path) :
        nm   \in {None, Some("Agent")},
        url  \in {None} \cup {Some(r) : r \in Roots},
        ver  \in Versions,
        tag  \in {None, Some("2.0.0")},
        tok  \in {None} \cup {Some(t) : t \in Tokens},
        path \in {None} \cup {Some(d) : d \in InstallDirs}}

BinNames == {<<"CloudAgent">>, <<"CloudAgent", ".exe">>}

QueryInit ==
    /\ q_self = NoResult
    /\ q_exch = NoResult
    /\ q_out = NoResult

RunInit ==
    /\ plan = None
    /\ pc = "configured"
    /\ resolved = NoResult
    /\ apply_result = None
    /\ before_calls = 0
    /\ apply_calls = 0
    /\ after_calls = 0
    /\ trace = <<>>
    /\ outcome = NoResult

\* A builder configured through the public setters, before build()
Init ==
    /\ windows \in BOOLEAN
    /\ exe_ok \in BOOLEAN
    /\ \E iv \in {None, Some(FALSE), Some(TRUE)} :
          /\ calls = [ignore |-> iv, path |-> None]
          /\ \E b \in RunBuildersWith(iv), n \in BinNames :
                builder = UpdateBuilder_bin_name(b, n, windows)
    /\ ret = [kind |-> "Self"]
    /\ RunInit
    /\ QueryInit

\* .build()? of the caller: a failure ends the run before it starts
Build ==
    /\ pc = "configured"
    /\ ret' = UpdateBuilder_build(builder, windows, exe_ok)
    /\ IF IsOk(ret')
       THEN plan' = Some(ret'.value) /\ pc' = "start" /\ outcome' = outcome
       ELSE plan' = plan /\ pc' = "done" /\ outcome' = ret'
    /\ UNCHANGED <<windows, exe_ok, builder, resolved, apply_result,
                   before_calls, apply_calls, after_calls, trace>>
    /\ UNCHANGED <<queryVars, calls>>

\* update(): step 1, ResolveRelease
ResolveRelease ==
    /\ pc = "start"
    /\ \E x \in Exchanges :
          /\ resolved' = Resolve(Unwrap(plan), x)
          /\ pc' = AfterResolve(resolved')
          /\ outcome' = IF IsOk(resolved') THEN outcome ELSE resolved'
    /\ UNCHANGED <<windows, exe_ok, builder, ret, plan, apply_result,
                   before_calls, apply_calls, after_calls, trace>>
    /\ UNCHANGED <<queryVars, calls>>

GateOnVersion_no_hook ==
    /\ pc = "gate"
    /\ IF UpToDate(Unwrap(plan), resolved.value)
       THEN pc' = "done" /\ outcome' = Status(resolved.value.version, FALSE)
       ELSE pc' = "apply" /\ outcome' = outcome
    /\ UNCHANGED <<windows, exe_ok, builder, ret, plan, resolved, apply_result,
                   before_calls, apply_calls, after_calls, trace>>
    /\ UNCHANGED <<queryVars, calls>>

\* update(): step 2, GateOnVersion
GateOnVersion ==
    /\ pc = "gate"
    /\ IF UpToDate(Unwrap(plan), resolved.value)
       THEN pc' = "done" /\ outcome' = Status(resolved.value.version, FALSE)
       ELSE pc' = "before" /\ outcome' = outcome
    /\ UNCHANGED <<windows, exe_ok, builder, ret, plan, resolved, apply_result,
                   before_calls, apply_calls, after_calls, trace>>
    /\ UNCHANGED <<queryVars, calls>>

\* update(): step 3, the pre-update hook
BeforeUpdate ==
    /\ pc = "before"
    /\ before_calls' = before_calls + 1
    /\ \E h \in HookRuns :
          LET r == Update_before_update(Unwrap(plan), windows, h)
          IN  IF IsOk(r)
              THEN /\ trace' = Append(trace, [ev |-> "before_update", log |-> r.value])
                   /\ pc' = "apply"
                   /\ outcome' = outcome
              ELSE /\ trace' = Append(trace, [ev |-> "before_update panicked"])
                   /\ pc' = "done"
                   /\ outcome' = r
    /\ UNCHANGED <<windows, exe_ok, builder, ret, plan, resolved, apply_result,
                   apply_calls, after_calls>>
    /\ UNCHANGED <<queryVars, calls>>

\* update(): step 4, the apply primitive is called
ApplyStart ==
    /\ pc = "apply"
    /\ apply_calls' = apply_calls + 1
    /\ trace' = Append(trace, [ev |-> "apply called"])
    /\ pc' = "applying"
    /\ UNCHANGED <<windows, exe_ok, builder, ret, plan, resolved, apply_result,
                   before_calls, after_calls, outcome>>
    /\ UNCHANGED <<queryVars, calls>>

\* update(): step 4, the apply primitive returns success or failure
ApplyReturn ==
    /\ pc = "applying"
    /\ \E r \in {Ok("applied"), Err("Apply", "apply failed")} :
          /\ apply_result' = Some(r)
          /\ trace' = Append(trace, [ev |-> "apply returned"])
          /\ pc' = AfterApply(r)
    /\ UNCHANGED <<windows, exe_ok, builder, ret, plan, resolved,
                   before_calls, apply_calls, after_calls, outcome>>
    /\ UNCHANGED <<queryVars, calls>>

\* update(): step 5, the post-update hook
AfterUpdate ==
    /\ pc = "after"
    /\ after_calls' = after_calls + 1
    /\ \E h \in HookRuns :
          LET r == Update_after_update(Unwrap(plan), windows, h)
          IN  IF IsOk(r)
              THEN /\ trace' = Append(trace, [ev |-> "after_update", log |-> r.value])
                   /\ pc' = "report"
                   /\ outcome' = outcome
              ELSE /\ trace' = Append(trace, [ev |-> "after_update panicked"])
                   /\ pc' = "done"
                   /\ outcome' = r
    /\ UNCHANGED <<windows, exe_ok, builder, ret, plan, resolved, apply_result,
                   before_calls, apply_calls>>
    /\ UNCHANGED <<queryVars, calls>>

\* update(): step 6, Report
Report ==
    /\ pc = "report"
    /\ outcome' = IF IsOk(Unwrap(apply_result))
                  THEN Status(resolved.value.version, TRUE)
                  ELSE Unwrap(apply_result)
    /\ pc' = "done"
    /\ UNCHANGED <<windows, exe_ok, builder, ret, plan, resolved, apply_result,
                   before_calls, apply_calls, after_calls, trace>>
    /\ UNCHANGED <<queryVars, calls>>

Next ==
    \/ Build
    \/ ResolveRelease
    \/ GateOnVersion
    \/ BeforeUpdate
    \/ ApplyStart
    \/ ApplyReturn
    \/ AfterUpdate
    \/ Report

Spec == Init /\ [][Next]_vars

----------------------------------------------------------------------------
(* The builder on its own: any setters, in any order, and build() *)

\* Most trailing executable suffixes on a name given to bin_name
MaxSuffixes == 2

RECURSIVE WithSuffixes(_, _)
WithSuffixes(base, n) ==
    IF n = 0 THEN {base}
    ELSE WithSuffixes(base, n - 1)
         \cup {q \o <<".exe">> : q \in {r \in WithSuffixes(base, n - 1) :
                                             Len(r) = Len(base) + n - 1}}

BinNameInputs == WithSuffixes(<<"CloudAgent">>, MaxSuffixes) \cup {<<"agent">>}

ArchivePaths == {<<"bin/", "agent">>}

Targets == {<<"agent">>}

\* No ignore_ver_compare and no bin_path_in_archive call so far
NoCalls == [ignore |-> None, path |-> None]

Self == [kind |-> "Self"]

BuilderInit ==
    /\ windows \in BOOLEAN
    /\ exe_ok \in BOOLEAN
    /\ builder = UpdateBuilder_default
    /\ calls = NoCalls
    /\ ret = Self
    /\ RunInit
    /\ QueryInit

SetterFrame == UNCHANGED <<windows, exe_ok, plan>> /\ UNCHANGED runVars
                   /\ UNCHANGED <<q_self, q_exch, q_out>>

name ==
    /\ builder' = UpdateBuilder_name(builder, "Agent")
    /\ ret' = Self /\ SetterFrame /\ UNCHANGED calls

custom_url ==
    /\ \E url \in Roots : builder' = UpdateBuilder_custom_url(builder, url)
    /\ ret' = Self /\ SetterFrame /\ UNCHANGED calls

ignore_ver_compare ==
    /\ \E v \in BOOLEAN :
          /\ builder' = UpdateBuilder_ignore_ver_compare(builder, v)
          /\ calls' = [calls EXCEPT !.ignore = Some(v)]
    /\ ret' = Self /\ SetterFrame

current_version ==
    /\ builder' = UpdateBuilder_current_version(builder, "1.0.0")
    /\ ret' = Self /\ SetterFrame /\ UNCHANGED calls

target_version_tag ==
    /\ builder' = UpdateBuilder_target_version_tag(builder, "2.0.0")
    /\ ret' = Self /\ SetterFrame /\ UNCHANGED calls

target ==
    /\ \E t \in Targets : builder' = UpdateBuilder_target(builder, t)
    /\ ret' = Self /\ SetterFrame /\ UNCHANGED calls

bin_name ==
    /\ \E n \in BinNameInputs : builder' = UpdateBuilder_bin_name(builder, n, windows)
    /\ ret' = Self /\ SetterFrame /\ UNCHANGED calls

bin_install_path ==
    /\ \E d \in InstallDirs : builder' = UpdateBuilder_bin_install_path(builder, d)
    /\ ret' = Self /\ SetterFrame /\ UNCHANGED calls

bin_path_in_archive ==
    /\ \E p \in ArchivePaths :
          /\ builder' = UpdateBuilder_bin_path_in_archive(builder, p)
          /\ calls' = [calls EXCEPT !.path = Some(p)]
    /\ ret' = Self /\ SetterFrame

show_download_progress ==
    /\ \E v \in BOOLEAN : builder' = UpdateBuilder_show_download_progress(builder, v)
    /\ ret' = Self /\ SetterFrame /\ UNCHANGED calls

show_output ==
    /\ \E v \in BOOLEAN : builder' = UpdateBuilder_show_output(builder, v)
    /\ ret' = Self /\ SetterFrame /\ UNCHANGED calls

no_confirm ==
    /\ \E v \in BOOLEAN : builder' = UpdateBuilder_no_confirm(builder, v)
    /\ ret' = Self /\ SetterFrame /\ UNCHANGED calls

auth_token ==
    /\ builder' = UpdateBuilder_auth_token(builder, Secret)
    /\ ret' = Self /\ SetterFrame /\ UNCHANGED calls

\* build(&self): the builder is left as it is
build ==
    /\ ret' = UpdateBuilder_build(builder, windows, exe_ok)
    /\ UNCHANGED <<windows, exe_ok, builder, plan>>
    /\ UNCHANGED runVars
    /\ UNCHANGED <<queryVars, calls>>

BuilderNext ==
    \/ name
    \/ custom_url
    \/ ignore_ver_compare
    \/ current_version
    \/ target_version_tag
    \/ target
    \/ bin_name
    \/ bin_install_path
    \/ bin_path_in_archive
    \/ show_download_progress
    \/ show_output
    \/ no_confirm
    \/ auth_token
    \/ build

SpecBuilder == BuilderInit /\ [][BuilderNext]_vars

----------------------------------------------------------------------------
(* The queries on their own: a receiver, one HTTP exchange, one call *)

\* The ReleaseLists a caller can configure
ReleaseLists ==
    {LET b0 == ReleaseListBuilder_with_name(ReleaseList_configure, "Agent")
         b1 == IF IsSome(url) THEN ReleaseListBuilder_with_url(b0, Unwrap(url)) ELSE b0
         b2 == IF IsSome(tgt) THEN ReleaseListBuilder_with_target(b1, Unwrap(tgt)) ELSE b1
         b3 == IF IsSome(tok) THEN ReleaseListBuilder_auth_token(b2, Unwrap(tok)) ELSE b2
     IN  ReleaseListBuilder_build(b3).value :
        url \in {None} \cup {Some(r) : r \in Roots},
        tgt \in {None, Some(<<"-x86_64-unknown-linux-gnu">>), Some(<<"-aarch64">>)},
        tok \in {None} \cup {Some(t) : t \in Tokens}}

\* The Updates a caller can build, as far as the queries read them
QueryUpdates ==
    {UpdateBuilder_build(
         UpdateBuilder_bin_name(
             RunBuilderOf(Some("Agent"), url, None, "1.0.0", None, tok,
                          Some(<<"/srv/CloudAgent">>)),
             <<"CloudAgent">>, FALSE),
         FALSE, TRUE).value :
        url \in {None} \cup {Some(r) : r \in Roots},
        tok \in {None} \cup {Some(t) : t \in Tokens}}

QuerySpecInit ==
    /\ windows = FALSE
    /\ exe_ok = TRUE
    /\ builder = UpdateBuilder_default
    /\ calls = NoCalls
    /\ ret = Self
    /\ RunInit
    /\ q_self \in {[recv |-> "ReleaseList", self |-> l] : l \in ReleaseLists}
                 \cup {[recv |-> "Update", self |-> u] : u \in QueryUpdates}
    /\ q_exch \in Exchanges
    /\ q_out = NoResult

QueryFrame == UNCHANGED <<windows, exe_ok, builder, ret, plan, q_self, q_exch, calls>>
                  /\ UNCHANGED runVars

\* ReleaseList::fetch
fetch ==
    /\ q_self.recv = "ReleaseList"
    /\ q_out = NoResult
    /\ q_out' = [call |-> "fetch", kind |-> "Returned",
                 request |-> SentRequest(q_self.self.auth_token,
                                         ReleaseList_api_url(q_self.self)),
                 result |-> ReleaseList_fetch(q_self.self, q_exch)]
    /\ QueryFrame

\* ReleaseList::fetch_releases, with the url fetch hands it
fetch_releases ==
    /\ q_self.recv = "ReleaseList"
    /\ q_out = NoResult
    /\ q_out' = [call |-> "fetch_releases", kind |-> "Returned",
                 request |-> SentRequest(q_self.self.auth_token,
                                         ReleaseList_api_url(q_self.self)),
                 result |-> ReleaseList_fetch_releases(
                                q_self.self, ReleaseList_api_url(q_self.self), q_exch)]
    /\ QueryFrame

\* Update::get_release_version
get_release_version ==
    /\ q_self.recv = "Update"
    /\ q_out = NoResult
    /\ \E ver \in Versions :
          q_out' = [call |-> "get_release_version", kind |-> "Returned",
                    request |-> SentRequest(q_self.self.auth_token,
                                            Update_api_url(q_self.self, ver)),
                    result |-> Update_get_release_version(q_self.self, ver, q_exch)]
    /\ QueryFrame

\* Update::get_latest_release
get_latest_release ==
    /\ q_self.recv = "Update"
    /\ q_out = NoResult
    /\ q_out' = [call |-> "get_latest_release", kind |-> "Returned",
                 request |-> SentRequest(q_self.self.auth_token,
                                         Update_api_url(q_self.self, "")),
                 result |-> Update_get_latest_release(q_self.self, q_exch)]
    /\ QueryFrame

QueryNext ==
    \/ fetch
    \/ fetch_releases
    \/ get_release_version
    \/ get_latest_release

SpecQuery == QuerySpecInit /\ [][QueryNext]_vars

----------------------------------------------------------------------------
(* The mapping on its own: one decoded record, one API root, one call *)

MapRoots == {<<"http://h">>, <<"https://", "api.example", ":8443">>}

\* Decoded records, with the ids that tell binary_id from id
MapSofts ==
    [id          : {1},
     binary_id   : {-7, 42},
     name        : {None} \cup {Some(n) : n \in SoftNames},
     hash        : {None, Some("9f86d0")},
     version     : {None} \cup {Some(v) : v \in Versions},
     create_time : {None, Some("2024-01-01")}]

MapSpecInit ==
    /\ windows = FALSE
    /\ exe_ok = TRUE
    /\ builder = UpdateBuilder_default
    /\ calls = NoCalls
    /\ ret = Self
    /\ RunInit
    /\ q_self \in {[recv |-> "Soft", self |-> soft, root_url |-> r] :
                      soft \in MapSofts, r \in MapRoots}
    /\ q_exch = NoResult
    /\ q_out = NoResult

\* from_cloud(soft, root_url)
map_from_cloud ==
    /\ q_self.recv = "Soft"
    /\ q_out = NoResult
    /\ q_out' = [call |-> "from_cloud", kind |-> "Returned",
                 result |-> from_cloud(q_self.self, q_self.root_url)]
    /\ QueryFrame

MapNext == map_from_cloud

SpecMap == MapSpecInit /\ [][MapNext]_vars

----------------------------------------------------------------------------
(* Binary-name normalization on its own: one name, normalized twice *)

NormInit ==
    /\ windows \in BOOLEAN
    /\ exe_ok = TRUE
    /\ \E iv \in {None, Some(FALSE), Some(TRUE)} :
          /\ calls = [ignore |-> iv, path |-> None]
          /\ builder \in RunBuildersWith(iv)
    /\ ret = Self
    /\ RunInit
    /\ q_self \in {[recv |-> "UpdateBuilder", arg |-> n] : n \in BinNameInputs}
    /\ q_exch = NoResult
    /\ q_out = NoResult

NormFrame == UNCHANGED <<windows, exe_ok, ret, plan, q_self, q_exch, calls>>
                 /\ UNCHANGED runVars

\* builder.bin_name(arg)
normalize ==
    /\ q_self.recv = "UpdateBuilder"
    /\ q_out = NoResult
    /\ LET b == UpdateBuilder_bin_name(builder, q_self.arg, windows)
       IN  /\ builder' = b
           /\ q_out' = [call |-> "bin_name", kind |-> "Returned",
                        first |-> b.bin_name, result |-> b.bin_name]
    /\ NormFrame

\* builder.bin_name(stored), the stored name being the normalized one
renormalize ==
    /\ q_self.recv = "UpdateBuilder"
    /\ q_out.kind = "Returned"
    /\ q_out.call = "bin_name"
    /\ LET b == UpdateBuilder_bin_name(builder, Unwrap(builder.bin_name), windows)
       IN  /\ builder' = b
           /\ q_out' = [q_out EXCEPT !.call = "bin_name of bin_name",
                                     !.result = b.bin_name]
    /\ NormFrame

NormNext ==
    \/ normalize
    \/ renormalize

SpecNorm == NormInit /\ [][NormNext]_vars

----------------------------------------------------------------------------
(* Properties of the update run (specification Spec) *)

\* The resolved version equals the plan's current version and the gate is on
GateCase ==
    /\ IsSome(plan)
    /\ IsOk(resolved)
    /\ ~Unwrap(plan).ignore_ver_compare
    /\ resolved.value.version = Unwrap(plan).current_version

\* C1: when the resolved release's version equals the plan's current version
\* and ignore_ver_compare is false, Apply is not invoked at any point of the
\* run and the run ends with the successful result "skipped, up to date".
C1_EqualVersionSkips ==
    GateCase =>
        /\ apply_calls = 0
        /\ pc \in {"gate", "done"}
        /\ (pc = "done" => outcome = Status(resolved.value.version, FALSE))

C1_Witness ==
    /\ GateCase
    /\ pc = "done"
    /\ outcome = Status("2.0.0", FALSE)
    /\ apply_calls = 0

ApplyFailed == IsSome(apply_result) /\ IsErr(Unwrap(apply_result))

\* C2: when Apply returns a failure, after_update is invoked exactly once,
\* after Apply has returned and before the run ends with the Apply failure:
\* no run propagates an Apply failure with zero or several invocations.
C2_ApplyFailureStillRunsAfterHook ==
    /\ after_calls <= 1
    /\ (ApplyFailed /\ pc = "after" => after_calls = 0)
    /\ (ApplyFailed /\ pc \in {"report", "done"} => after_calls = 1)
    /\ (IsErrOf(outcome, "Apply") =>
            /\ pc = "done"
            /\ after_calls = 1
            /\ Len(trace) >= 2
            /\ trace[Len(trace)].ev = "after_update"
            /\ trace[Len(trace) - 1].ev = "apply returned")

C2_Witness ==
    /\ pc = "done"
    /\ ApplyFailed
    /\ outcome = Unwrap(apply_result)
    /\ after_calls = 1

\* C3: Apply starts only after before_update has been invoked and has
\* returned, and after_update is invoked only after Apply has returned;
\* Apply is never in progress before the pre-update hook has run or once
\* the post-update hook has started.
C3_HooksBracketApply ==
    /\ \A i \in 1..Len(trace) :
          trace[i].ev = "apply called" =>
              /\ i = 2
              /\ trace[1].ev = "before_update"
    /\ \A i \in 1..Len(trace) :
          trace[i].ev \in {"after_update", "after_update panicked"} =>
              /\ i = 4
              /\ trace[3].ev = "apply returned"
    /\ (pc = "applying" => before_calls = 1 /\ after_calls = 0)
    /\ (apply_calls > 0 => before_calls = 1)
    /\ (after_calls > 0 => IsSome(apply_result) /\ pc # "applying")

C3_Witness ==
    /\ pc = "done"
    /\ before_calls = 1
    /\ apply_calls = 1
    /\ after_calls = 1
    /\ Len(trace) = 4

\* The plan's auth token cannot be encoded as a header value
BadToken ==
    /\ IsSome(plan)
    /\ IsSome(Unwrap(plan).auth_token)
    /\ \E i \in 1..Len(Unwrap(Unwrap(plan).auth_token)) :
          Unwrap(Unwrap(plan).auth_token)[i] \in InvalidHeaderBytes

\* C4: when release resolution fails with a Configuration, Network,
\* decoding or ReleaseNotFound failure, the run ends with that same failure
\* and before_update, Apply and after_update are never invoked; a token
\* that cannot be encoded is such a Configuration failure.
C4_ResolutionFailureEndsRun ==
    /\ IsErr(resolved) =>
          /\ resolved.error \in {"Config", "Network", "Reqwest", "Release"}
          /\ pc = "done"
          /\ outcome = resolved
          /\ before_calls = 0
          /\ apply_calls = 0
          /\ after_calls = 0
          /\ trace = <<>>
    /\ (BadToken /\ pc # "start" =>
          /\ IsErrOf(resolved, "Config")
          /\ pc = "done"
          /\ before_calls = 0 /\ apply_calls = 0 /\ after_calls = 0)

C4_Witness ==
    /\ IsErrOf(resolved, "Network")
    /\ resolved.msg.status = 500
    /\ pc = "done"
    /\ outcome = resolved
    /\ before_calls = 0 /\ apply_calls = 0 /\ after_calls = 0

\* C5: a failing hook never aborts the run: once before_update has been
\* invoked the run goes on through Apply and after_update, and its result
\* is the one resolution and Apply determine.
C5_HookNeverAbortsRun ==
    (pc = "done" /\ before_calls = 1) =>
        /\ ~IsPanic(outcome)
        /\ apply_calls = 1
        /\ after_calls = 1
        /\ outcome = IF IsOk(Unwrap(apply_result))
                      THEN Status(resolved.value.version, TRUE)
                      ELSE Unwrap(apply_result)

\* C10: with ignore_ver_compare = true, every run whose release resolution
\* succeeds invokes Apply exactly once, also when the versions are equal.
C10_IgnoreCompareAlwaysApplies ==
    (/\ IsSome(plan)
     /\ Unwrap(plan).ignore_ver_compare
     /\ IsOk(resolved)
     /\ pc = "done") => apply_calls = 1

----------------------------------------------------------------------------
(* Properties of the queries (specification SpecQuery) *)

\* The call has returned and its request was sent and answered with a
\* success status
Answered ==
    /\ q_out.kind = "Returned"
    /\ ~(/\ IsSome(q_self.self.auth_token)
         /\ \E i \in 1..Len(Unwrap(q_self.self.auth_token)) :
               Unwrap(q_self.self.auth_token)[i] \in InvalidHeaderBytes)
    /\ q_exch.t = "Resp"
    /\ q_exch.status = 200

\* The body is an envelope whose content has the shape the call decodes
Decodable ==
    /\ q_exch.body.t = "Envelope"
    /\ q_exch.body.content.t =
          (IF q_self.recv = "ReleaseList" THEN "Array" ELSE "Object")

Unsuccessful ==
    /\ Answered
    /\ q_exch.body.t = "Envelope"
    /\ ~q_exch.body.isSuccess

\* C6 as claimed: an envelope with is_success = false makes fetch and
\* get_release_version return Error::Release whatever its content holds,
\* an absent, null or malformed content included.
C6_UnsuccessfulIsReleaseWhateverContent ==
    Unsuccessful => IsErrOf(q_out.result, "Release")

\* C6: an envelope with is_success = false whose content decodes (a list
\* of records for fetch, one record for get_release_version) makes the call
\* return Error::Release, whatever the records hold; when the content is
\* absent, null or not of that shape the call returns the decoding failure.
C6_UnsuccessfulIsReleaseWhenDecoded ==
    Unsuccessful =>
        IF Decodable THEN IsErrOf(q_out.result, "Release")
                     ELSE q_out.result = Err("Reqwest", "decode")

C6_Witness ==
    /\ Unsuccessful
    /\ q_self.recv = "ReleaseList"
    /\ q_exch.body.content.t = "Array"
    /\ Len(q_exch.body.content.recs) = 2
    /\ IsSome(q_exch.body.content.recs[1].name)
    /\ IsSome(q_exch.body.content.recs[1].version)
    /\ IsErrOf(q_out.result, "Release")

\* The records of a decodable content
ContentRecords ==
    IF q_exch.body.content.t = "Array"
    THEN {q_exch.body.content.recs[i] : i \in 1..Len(q_exch.body.content.recs)}
    ELSE {q_exch.body.content.rec}

\* C7: when a decoded record lacks name or version, the query returns a
\* failure value to its caller: it neither returns a partial list nor
\* terminates abnormally.
C7_MissingNameOrVersionIsFailure ==
    (/\ Answered
     /\ IsSome(q_self.self.custom_url)
     /\ Decodable
     /\ q_exch.body.isSuccess
     /\ \E r \in ContentRecords : r.name = None \/ r.version = None)
    => IsErr(q_out.result)

----------------------------------------------------------------------------
(* Properties of the builder (specification SpecBuilder) *)

\* The last call was build()
Built == ret.kind \in {"Ok", "Err"}

RequiredUnset ==
    \/ builder.name = None
    \/ builder.bin_name = None
    \/ builder.bin_path_in_archive = None
    \/ builder.current_version = None

\* What build() owes when the install path is available
BuildContract ==
    IF RequiredUnset
    THEN IsErrOf(ret, "Config")
    ELSE /\ IsOk(ret)
         /\ (builder.target = None =>
                ret.value.target = (IF windows THEN <<"x86_64-pc-windows-msvc">>
                                               ELSE <<"x86_64-unknown-linux-gnu">>))
         /\ (builder.bin_install_path = None =>
                ret.value.bin_install_path = [os |-> <<"/opt/updater/update">>])

\* C8 as claimed: build() returns a Configuration failure whenever a
\* required field is unset and a Plan whenever all four are set, with the
\* unset target and install path defaulted.
C8_BuildConfigOrPlan == Built => BuildContract

\* C8: as claimed when the install path is set or the running executable's
\* location can be determined; when the install path is unset and
\* env::current_exe() fails, build() returns that I/O failure, whether or
\* not required fields are missing.
C8_BuildConfigOrPlanOrIo ==
    Built =>
        IF builder.bin_install_path = None /\ ~exe_ok
        THEN IsErrOf(ret, "Io")
        ELSE BuildContract

C8_Witness ==
    /\ Built
    /\ IsOk(ret)
    /\ builder.target = None
    /\ builder.bin_install_path = None
    /\ builder.no_confirm
    /\ IsSome(builder.auth_token)
    /\ ret.value.target = <<"x86_64-unknown-linux-gnu">>

FirstMissing ==
    IF builder.name = None THEN "name"
    ELSE IF builder.bin_name = None THEN "bin_name"
    ELSE IF builder.bin_path_in_archive = None THEN "bin_path_in_archive"
    ELSE "current_version"

FieldNamedBy(msg) ==
    CASE msg = "name required" -> "name"
      [] msg = "bin_name required" -> "bin_name"
      [] msg = "bin_path_in_archive required" -> "bin_path_in_archive"
      [] msg = "current_version required" -> "current_version"

\* C9: when build() fails for missing required fields, the Configuration
\* failure names the first missing one in the order name, bin_name,
\* bin_path_in_archive, current_version; with name unset it names name.
C9_ConfigFailureNamesFirstMissing ==
    (Built /\ IsErrOf(ret, "Config")) => FieldNamedBy(ret.msg) = FirstMissing

----------------------------------------------------------------------------
(* Properties of the mapping (specification SpecMap) *)

\* The record that was mapped has its name and its version
MappedValid ==
    /\ q_out.kind = "Returned"
    /\ q_out.call = "from_cloud"
    /\ IsSome(q_self.self.name)
    /\ IsSome(q_self.self.version)

\* C11: for every record with name and version present and every API
\* root, the mapping yields a Release with exactly one Asset, named as the
\* record, whose download_url is {root}/api/binaryfile/download?id={binary_id};
\* the Release has the record's name and version, and its date is
\* create_time, or the empty string when create_time is absent.
C11_MappingOfValidRecord ==
    MappedValid =>
        /\ IsOk(q_out.result)
        /\ Len(q_out.result.value.assets) = 1
        /\ q_out.result.value.assets[1].name = q_self.self.name[1]
        /\ q_out.result.value.assets[1].download_url =
              q_self.root_url \o <<"/api/binaryfile/download?id=">>
                  \o <<ToString(q_self.self.binary_id)>>
        /\ q_out.result.value.name = q_self.self.name[1]
        /\ q_out.result.value.version = q_self.self.version[1]
        /\ q_out.result.value.date =
              (IF q_self.self.create_time = <<>> THEN ""
               ELSE q_self.self.create_time[1])

C11_Witness ==
    /\ MappedValid
    /\ q_self.self.binary_id = 42
    /\ q_self.self.create_time = <<>>
    /\ q_self.root_url = <<"http://h">>
    /\ q_out.result.value.date = ""
    /\ q_out.result.value.assets[1].download_url =
          <<"http://h", "/api/binaryfile/download?id=", "42">>

----------------------------------------------------------------------------
(* Properties of the queries: status, emptiness, filter, headers, roots *)

\* A request went out and a response came back with a non-success status
NonSuccessStatus ==
    /\ q_out.kind = "Returned"
    /\ IsSome(q_out.request)
    /\ q_exch.t = "Resp"
    /\ ~is_success(q_exch.status)

\* C12: for the list endpoint and the single-version endpoint, a response
\* with a non-success HTTP status yields Error::Network carrying the status
\* code and the requested URL, whatever the body holds: the body is never
\* decoded or mapped into releases.
C12_NonSuccessStatusIsNetwork ==
    NonSuccessStatus =>
        q_out.result = Err("Network", [status |-> q_exch.status,
                                       url    |-> q_out.request[1].url])

C12_Witness ==
    /\ NonSuccessStatus
    /\ q_out.call = "fetch"
    /\ q_exch.status = 500
    /\ q_exch.body.t = "Envelope"
    /\ q_exch.body.isSuccess
    /\ q_exch.body.content.t = "Array"
    /\ Len(q_exch.body.content.recs) = 1
    /\ IsSome(q_exch.body.content.recs[1].name)
    /\ IsSome(q_exch.body.content.recs[1].version)
    /\ q_out.result.kind = "Err"
    /\ q_out.result.error = "Network"
    /\ q_out.result.msg.status = 500
    /\ q_out.result.msg.url = <<"http://h", "/api/soft/getlist?type=2">>

\* HTTP success, envelope with is_success = true and a list of zero records
EmptySuccess ==
    /\ Answered
    /\ q_self.recv = "ReleaseList"
    /\ q_exch.body.t = "Envelope"
    /\ q_exch.body.isSuccess
    /\ q_exch.body.content.t = "Array"
    /\ q_exch.body.content.recs = <<>>

\* C13: an HTTP-successful envelope with is_success = true and a content
\* of zero records makes the list query return Error::Release, and
\* fetch_releases never returns a successful empty list of releases.
C13_EmptyContentIsReleaseNotFound ==
    /\ EmptySuccess => IsErrOf(q_out.result, "Release")
    /\ (q_out.kind = "Returned" /\ q_out.call = "fetch_releases"
            /\ IsOk(q_out.result))
        => Len(q_out.result.value) > 0

C13_Witness ==
    /\ EmptySuccess
    /\ q_out.call = "fetch_releases"
    /\ IsSome(q_self.self.custom_url)
    /\ IsErrOf(q_out.result, "Release")
    /\ q_out.result.msg = "Not found Release"

\* fetch was answered with a non-empty list of records that all map
FetchedAll ==
    /\ Answered
    /\ q_out.call = "fetch"
    /\ IsSome(q_self.self.custom_url)
    /\ q_exch.body.t = "Envelope"
    /\ q_exch.body.isSuccess
    /\ q_exch.body.content.t = "Array"
    /\ Len(q_exch.body.content.recs) > 0
    /\ \A r \in ContentRecords : IsSome(r.name) /\ IsSome(r.version)

\* The releases of the response, each record mapped, in the API's order
MappedContent ==
    [i \in 1..Len(q_exch.body.content.recs) |->
        from_cloud(Soft_deserialize(q_exch.body.content.recs[i]),
                   Unwrap(q_self.self.custom_url)).value]

\* C17: when a target is configured and no fetched release has an asset
\* matching it, ReleaseList::fetch returns a successful empty sequence, not
\* a failure; when no target is configured, fetch returns every mapped
\* release unchanged and in the API's order.
C17_FilterYieldsEmptyOrAll ==
    FetchedAll =>
        /\ q_self.self.target = None => q_out.result = Ok(MappedContent)
        /\ (/\ IsSome(q_self.self.target)
            /\ \A i \in 1..Len(MappedContent) :
                  ~has_target_asset(MappedContent[i], Unwrap(q_self.self.target)))
           => q_out.result = Ok(<<>>)

C17_Witness ==
    /\ FetchedAll
    /\ q_self.self.target = Some(<<"-aarch64">>)
    /\ Len(q_exch.body.content.recs) = 2
    /\ q_exch.body.content.recs[1].name = Some(<<"agent", "-x86_64-unknown-linux-gnu">>)
    /\ q_out.result = Ok(<<>>)

\* "Bearer {token}" parses as a header value: each byte of the token is
\* TAB, or at least 32 and not DEL
TokenEncodes ==
    \A i \in 1..Len(Unwrap(q_self.self.auth_token)) :
        \/ Unwrap(q_self.self.auth_token)[i] = 9
        \/ /\ Unwrap(q_self.self.auth_token)[i] >= 32
           /\ Unwrap(q_self.self.auth_token)[i] # 127

\* C18: every request carries the fixed user-agent header; it carries
\* Authorization: Bearer {token} exactly when an auth token is configured;
\* when the token cannot be encoded as a header value the query returns
\* Error::Config and no HTTP request is sent.
C18_HeadersOfEveryRequest ==
    q_out.kind = "Returned" =>
        IF IsSome(q_self.self.auth_token) /\ ~TokenEncodes
        THEN /\ q_out.request = None
             /\ IsErrOf(q_out.result, "Config")
        ELSE /\ IsSome(q_out.request)
             /\ q_out.request[1].headers.user_agent = "rust-reqwest/self-update"
             /\ q_out.request[1].headers.authorization =
                   (IF IsSome(q_self.self.auth_token)
                    THEN Some(Bearer \o Unwrap(q_self.self.auth_token))
                    ELSE None)

C18_Witness ==
    /\ q_out.kind = "Returned"
    /\ q_self.self.auth_token = Some(Secret)
    /\ q_exch.t = "Resp"
    /\ IsSome(q_out.request)
    /\ q_out.request[1].headers.authorization =
          Some(<<66, 101, 97, 114, 101, 114, 32, 115, 101, 99, 114, 101, 116>>)

\* No record of the response lacks its name or its version
RecordsComplete ==
    ~(/\ q_exch.t = "Resp"
      /\ q_exch.body.t = "Envelope"
      /\ q_exch.body.content.t \in {"Array", "Object"}
      /\ \E r \in ContentRecords : r.name = None \/ r.version = None)

\* The root the request URL was built from
RequestRoot ==
    IF IsSome(q_self.self.custom_url) THEN Unwrap(q_self.self.custom_url)
    ELSE IF q_self.recv = "ReleaseList" THEN <<"http:127.0.0.1">>
    ELSE <<"http://127.0.0.1:5000">>

\* The releases a successful query returned
ReturnedReleases ==
    IF q_out.call \in {"fetch", "fetch_releases"}
    THEN {q_out.result.value[i] : i \in 1..Len(q_out.result.value)}
    ELSE {q_out.result.value}

\* C19: for every configuration, one without a custom API root included,
\* and every response whose records are complete, the queries return
\* releases or a typed failure and never terminate abnormally; the root of
\* each returned download_url is the root the request URL was built from.
C19_QueriesReturnOnAnyRoot ==
    (q_out.kind = "Returned" /\ RecordsComplete) =>
        /\ ~IsPanic(q_out.result)
        /\ IsOk(q_out.result) =>
              \A r \in ReturnedReleases :
                  \A i \in 1..Len(r.assets) :
                      SubSeq(r.assets[i].download_url, 1, Len(RequestRoot))
                          = RequestRoot

----------------------------------------------------------------------------
(* Properties of the builder: normalization, path in archive, gating flag *)

\* C14: bin_name normalization is idempotent and appends the platform
\* executable suffix exactly once: for every input name the stored bin_name
\* ends with the suffix and not with the suffix twice, and normalizing the
\* normalized name yields the identical name.
C14_BinNameNormalizedOnce ==
    q_out.kind = "Returned" =>
        /\ builder.bin_name = q_out.result
        /\ EndsWith(Unwrap(q_out.result), EXE_SUFFIX(windows))
        /\ EXE_SUFFIX(windows) # <<>> =>
              ~EndsWith(Unwrap(q_out.result),
                        EXE_SUFFIX(windows) \o EXE_SUFFIX(windows))
        /\ q_out.result = q_out.first
        /\ UpdateBuilder_bin_name(builder, Unwrap(q_out.result), windows).bin_name
              = q_out.result

C14_Witness ==
    /\ windows
    /\ q_self.arg = <<"CloudAgent", ".exe">>
    /\ q_out.kind = "Returned"
    /\ q_out.call = "bin_name of bin_name"
    /\ q_out.first = Some(<<"CloudAgent", ".exe">>)
    /\ builder.bin_name = Some(<<"CloudAgent", ".exe">>)

\* C15: after any sequence of setter calls, path-in-archive is the argument
\* of the last explicit bin_path_in_archive call if there was one, whether
\* bin_name was called before or after it, and otherwise the builder's
\* current normalized binary file name, bin_name called more than once
\* with different names included.
C15_PathInArchiveFollowsCalls ==
    IF IsSome(calls.path)
    THEN builder.bin_path_in_archive = Some(PathBuf_from(Unwrap(calls.path)))
    ELSE IF IsSome(builder.bin_name)
         THEN builder.bin_path_in_archive
                  = Some(PathBuf_from(Unwrap(builder.bin_name)))
         ELSE builder.bin_path_in_archive = None

\* build() returned an Update
BuiltPlan == Built /\ IsOk(ret)

\* C20: a Plan built from a builder on which ignore_ver_compare was never
\* called has ignore_ver_compare = true, so the version gate does not stop
\* a run whose resolved version equals the current version; the gate
\* takes effect only after an explicit ignore_ver_compare(false).
C20_GatingOffUnlessExplicitlyOn ==
    BuiltPlan =>
        /\ Update_ignore_ver_compare(ret.value) = (calls.ignore # Some(FALSE))
        /\ UpToDate(ret.value, [version |-> Update_current_version(ret.value)])
              = (calls.ignore = Some(FALSE))

C20_Witness ==
    /\ BuiltPlan
    /\ calls.ignore = None
    /\ Update_ignore_ver_compare(ret.value)
    /\ ~UpToDate(ret.value, [version |-> Update_current_version(ret.value)])

----------------------------------------------------------------------------
(* Properties of the hooks' commands (specification Spec) *)

\* The shell commands that stop the managed service
StopCommands == {"sc stop CloudAgent", "sv stop CloudAgent"}

\* C16: in every run in which the pre-update hook was executed, the
\* post-update hook that completes has run the command that restarts the
\* managed service, not the stop command, on every platform, whether
\* Apply succeeded or failed.
C16_AfterHookRestartsService ==
    \A i \in 1..Len(trace) :
        trace[i].ev = "after_update" =>
            /\ \E j \in 1..(i - 1) :
                  /\ trace[j].ev = "before_update"
                  /\ trace[j].log.cmd[3] \in StopCommands
            /\ trace[i].log.cmd[3] \notin StopCommands

====
